---------------------------- MODULE Spec2Model ----------------------------
(***************************************************************************)
(* A model of the CV scoring and ATS-inference core of app.py.             *)
(*                                                                         *)
(* Texts are TLA+ strings, handled as sequences of characters with Len,    *)
(* SubSeq and \o.  Python's None is the value None below.  A Python float  *)
(* is an IEEE 754 double [m |-> digits, e |-> exponent], the number        *)
(* m * 2^e with m a natural number of at most 53 binary digits, and its    *)
(* arithmetic rounds every result to the nearest double.  A number the     *)
(* program returns or formats (an int, a float rounded to one decimal) is  *)
(* the exact fraction [num |-> n, den |-> d] with d >= 1.                  *)
(*                                                                         *)
(* The characters of the modelled texts are printable ASCII, the white     *)
(* space characters space, \t, \n, \r and \f, and the letters e-acute in   *)
(* both cases as the non-ASCII characters.  A Python int n is the fraction *)
(* n/1.                                                                    *)
(***************************************************************************)
EXTENDS Integers, Sequences, FiniteSets, TLC

VARIABLES
    pc,            \* the call in progress, "done" once it has returned
    cv_text,       \* argument of score_resume, build_improvement_tips, create_revamped_docx
    job_keywords,  \* argument of score_resume, build_improvement_tips
    job_title,     \* argument of score_resume, create_revamped_docx
    score,         \* argument of build_improvement_tips
    ats_name,      \* argument of build_improvement_tips
    url,           \* argument of detect_ats
    html_text,     \* argument of detect_ats
    text,          \* argument of extract_keywords
    top_n,         \* argument of extract_keywords
    html,          \* argument of extract_job_text_from_html (the parsed document)
    contact_email, \* argument of create_revamped_docx
    contact_phone, \* argument of create_revamped_docx
    result         \* what the call returned

vars == << pc, cv_text, job_keywords, job_title, score, ats_name, url,
           html_text, text, top_n, html, contact_email, contact_phone, result >>

-----------------------------------------------------------------------------
(* Python values                                                           *)

\* Python's None; no text of the model equals it.
None == "<None>"

\* bool(x) for x a str or None.
Truthy(x) == x # None /\ x # ""

\* (x or '') for x a str or None.
OrEmpty(x) == IF Truthy(x) THEN x ELSE ""

Frac(n, d) == [num |-> n, den |-> d]

FEq(a, b) == a.num * b.den = b.num * a.den

FLess(a, b) == a.num * b.den < b.num * a.den

\* round(num/den): to the nearest integer, a tie to the even one.
RoundHalfEven(num, den) ==
    LET q == num \div den
        r == num % den
    IN  IF 2 * r < den THEN q
        ELSE IF 2 * r > den THEN q + 1
        ELSE IF q % 2 = 0 THEN q ELSE q + 1

\* An int.
Int1(n) == Frac(n, 1)

IsIntegral(x) == x.num % x.den = 0

\* min(a, b) of two numbers (the first when they are equal).
FMin(a, b) == IF FLess(b, a) THEN b ELSE a

Min(a, b) == IF a <= b THEN a ELSE b

Max(a, b) == IF a >= b THEN a ELSE b

-----------------------------------------------------------------------------
(* Python floats                                                           *)
(*                                                                         *)
(* A natural number of any size is the sequence of its digits in base      *)
(* 2^15, the least significant first and the most significant, which is    *)
(* not 0, last (no digit for 0).  A float is [m |-> digits, e |-> k], the  *)
(* number m * 2^k, with m of at most 53 binary digits once its trailing    *)
(* zeros are left out.  The ints that take part are below 2^15.            *)

Base == 2 ^ 15

RECURSIVE Digits(_)
Digits(n) == IF n = 0 THEN << >> ELSE << n % Base >> \o Digits(n \div Base)

Digit(a, i) == IF i \in 1..Len(a) THEN a[i] ELSE 0

\* The digits a without leading zeros.
Trim(a) ==
    LET used == { i \in 1..Len(a) : a[i] # 0 }
    IN  IF used = {} THEN << >>
        ELSE SubSeq(a, 1, CHOOSE i \in used : \A j \in used : j <= i)

\* a + b, digit by digit from the lowest with the carry.
Add(a, b) ==
    LET RECURSIVE AddFrom(_, _)
        AddFrom(i, carry) ==
            IF i > Max(Len(a), Len(b)) THEN Digits(carry)
            ELSE << ((Digit(a, i) + Digit(b, i) + carry) % Base) >>
                 \o AddFrom(i + 1, (Digit(a, i) + Digit(b, i) + carry) \div Base)
    IN  AddFrom(1, 0)

\* a * k for an int 0 <= k <= 2^15, digit by digit from the lowest with the
\* carry.
Times(a, k) ==
    LET RECURSIVE TimesFrom(_, _)
        TimesFrom(i, carry) ==
            IF i > Len(a) THEN Digits(carry)
            ELSE << ((a[i] * k + carry) % Base) >>
                 \o TimesFrom(i + 1, (a[i] * k + carry) \div Base)
    IN  IF k = 0 THEN << >> ELSE TimesFrom(1, 0)

\* a < b.
Less(a, b) ==
    \/ Len(a) < Len(b)
    \/ /\ Len(a) = Len(b)
       /\ \E i \in 1..Len(a) :
            a[i] < b[i] /\ \A j \in (i + 1)..Len(a) : a[j] = b[j]

\* The number of binary digits of a.
BitLen(a) ==
    IF a = << >> THEN 0
    ELSE 15 * (Len(a) - 1)
         + (CHOOSE w \in 1..15 : (2 ^ (w - 1)) <= a[Len(a)] /\ a[Len(a)] < (2 ^ w))

\* a * 2^k.
Shl(a, k) ==
    IF a = << >> THEN << >>
    ELSE [ i \in 1..(k \div 15) |-> 0 ] \o Times(a, 2 ^ (k % 15))

\* a / 2^d, rounded down.
Shr(a, d) ==
    Trim([ j \in 1..Len(a) |->
             (Digit(a, j + (d \div 15)) \div (2 ^ (d % 15)))
             + (Digit(a, j + (d \div 15) + 1) % (2 ^ (d % 15)))
               * (2 ^ (15 - (d % 15))) ])

\* a / 2^d, rounded to the nearest integer: up when the binary digits
\* dropped are more than half a unit, or exactly half and the last digit
\* kept is odd.
Rounded(a, d) ==
    LET \* The binary digit of a that counts 2^i.
        BitAt(i) == (Digit(a, (i \div 15) + 1) \div (2 ^ (i % 15))) % 2
    IN  IF /\ d > 0
           /\ BitAt(d - 1) = 1
           /\ (BitAt(d) = 1 \/ \E i \in 0..(d - 2) : BitAt(i) = 1)
        THEN Add(Shr(a, d), << 1 >>)
        ELSE Shr(a, d)

\* The float nearest to m * 2^e, a tie to the one with the even 53rd digit.
Fl(m, e) ==
    IF BitLen(m) <= 53 THEN [ m |-> m, e |-> e ]
    ELSE [ m |-> Rounded(m, BitLen(m) - 53), e |-> e + BitLen(m) - 53 ]

\* float(n) of an int n >= 0.
FromInt(n) == [ m |-> Digits(n), e |-> 0 ]

\* a / b of two ints a >= 0 and 0 < b < 2^16: the quotient to 75 binary
\* digits below the point, at least 59 from its leading digit, then rounded.
\* A float literal is the float nearest to its decimal digits: 0.6 is
\* Div(6, 10).
Div(a, b) ==
    LET \* Long division: q holds the digits of the quotient found so far
        \* and r the remainder, r < b; k more digits are to come.
        RECURSIVE LongDivision(_, _, _)
        LongDivision(q, r, k) ==
            IF k = 0 THEN [ m |-> q, r |-> r ]
            ELSE LongDivision(<< (r * Base) \div b >> \o q, (r * Base) % b, k - 1)
        \* The digits of a quotient that was cut off: a remainder left over
        \* counts as a binary digit 1 below the last one.
        Quotient(q) ==
            Trim(IF q.r = 0 THEN q.m
                 ELSE << q.m[1] + 1 - (q.m[1] % 2) >> \o Tail(q.m))
    IN  Fl(Quotient(LongDivision(Digits(a \div b), a % b, 5)), -75)

\* k * x of an int 0 <= k < 2^15 and a float.
DTimes(k, x) == IF x.m = << >> THEN x ELSE Fl(Times(x.m, k), x.e)

\* x + y of two floats: the sum of their digits in units of the smaller
\* exponent, rounded.
DAdd(x, y) ==
    IF x.e <= y.e THEN Fl(Add(x.m, Shl(y.m, y.e - x.e)), x.e)
    ELSE Fl(Add(Shl(x.m, x.e - y.e), y.m), y.e)

\* x < y of two floats.
DLess(x, y) ==
    IF x.e <= y.e THEN Less(x.m, Shl(y.m, y.e - x.e))
    ELSE Less(Shl(x.m, x.e - y.e), y.m)

\* The integer nearest to m * 2^e, a tie to the even one.
NearestInt(m, e) ==
    LET \* The number with the digits a (it is below 2^31).
        RECURSIVE Value(_)
        Value(a) == IF a = << >> THEN 0 ELSE Head(a) + Base * Value(Tail(a))
    IN  IF e >= 0 THEN Value(Shl(m, e)) ELSE Value(Rounded(m, -e))

\* round(x) of a float x: an int.
Round(x) == Int1(NearestInt(x.m, x.e))

\* round(x, 1) of a float x: the float nearest to the multiple of 0.1 that
\* is nearest to x, given as that multiple.
Round1(x) == Frac(NearestInt(Times(x.m, 10), x.e), 10)

-----------------------------------------------------------------------------
(* str operations                                                          *)

Chars(s) == { SubSeq(s, i, i) : i \in 1..Len(s) }

Char(s, i) == SubSeq(s, i, i)

ascii_uppercase == "ABCDEFGHIJKLMNOPQRSTUVWXYZ"

ascii_lowercase == "abcdefghijklmnopqrstuvwxyz"

digits == "0123456789"

\* The non-ASCII characters of the model (ord(c) > 127): upper case, then lower.
NonAsciiUpper == "É"

NonAsciiLower == "é"

UpperChars == Chars(ascii_uppercase \o NonAsciiUpper)

AsciiLetters == Chars(ascii_uppercase \o ascii_lowercase)

DigitChars == Chars(digits)

NonAsciiChars == Chars(NonAsciiUpper \o NonAsciiLower)

\* str.isspace(), and \s of re.
SpaceChars == { " ", "\t", "\n", "\r", "\f" }

\* \w of re on str: alphanumeric or underscore.
WordChars == AsciiLetters \cup DigitChars \cup NonAsciiChars \cup { "_" }

LowerOf ==
    LET up == ascii_uppercase \o NonAsciiUpper
        lo == ascii_lowercase \o NonAsciiLower
    IN  [ c \in UpperChars |->
            Char(lo, CHOOSE k \in 1..Len(up) : Char(up, k) = c) ]

UpperOf ==
    LET up == ascii_uppercase \o NonAsciiUpper
        lo == ascii_lowercase \o NonAsciiLower
    IN  [ c \in Chars(lo) |->
            Char(up, CHOOSE k \in 1..Len(lo) : Char(lo, k) = c) ]

\* F(lo) \o ... \o F(hi) for strings F(i)
RECURSIVE Concat(_, _, _)
Concat(F(_), lo, hi) ==
    IF lo > hi THEN ""
    ELSE IF lo = hi THEN F(lo)
    ELSE LET mid == (lo + hi) \div 2
         IN  Concat(F, lo, mid) \o Concat(F, mid + 1, hi)

\* The least element of a non-empty set of integers.
MinOf(S) == CHOOSE i \in S : \A j \in S : i <= j

\* The elements of S within lo..hi in increasing order.
RECURSIVE SortedIn(_, _, _)
SortedIn(S, lo, hi) ==
    LET part == { i \in S : lo <= i /\ i <= hi }
    IN  IF part = {} THEN << >>
        ELSE IF Cardinality(part) = 1 THEN << CHOOSE i \in part : TRUE >>
        ELSE LET mid == (lo + hi) \div 2
             IN  SortedIn(part, lo, mid) \o SortedIn(part, mid + 1, hi)

\* The elements of a set of positions of a string of length n in increasing
\* order.
Sorted(S, n) == SortedIn(S, 1, n)

\* str.lower(): every upper-case character replaced by its lower-case one.
lower(s) ==
    LET ups == Sorted({ i \in 1..Len(s) : Char(s, i) \in UpperChars }, Len(s))
        \* what lies after the upper-case character before the k-th one, and
        \* the k-th one lowered
        Piece(k) ==
            SubSeq(s, (IF k = 1 THEN 1 ELSE ups[k - 1] + 1), ups[k] - 1)
                \o LowerOf[Char(s, ups[k])]
    IN  IF ups = << >> THEN s
        ELSE Concat(Piece, 1, Len(ups)) \o SubSeq(s, ups[Len(ups)] + 1, Len(s))

\* str.capitalize(): the first character upper case, the rest lower case.
capitalize(s) ==
    IF Len(s) = 0 THEN s
    ELSE LET c == Char(s, 1)
         IN  (IF c \in DOMAIN UpperOf THEN UpperOf[c] ELSE c)
                \o lower(SubSeq(s, 2, Len(s)))

\* needle in hay
In(needle, hay) ==
    \E i \in 0..(Len(hay) - Len(needle)) :
        SubSeq(hay, i + 1, i + Len(needle)) = needle

\* s * n
RECURSIVE Repeat(_, _)
Repeat(s, n) ==
    IF n <= 0 THEN ""
    ELSE IF n = 1 THEN s
    ELSE Repeat(s, n \div 2) \o Repeat(s, n - n \div 2)

\* sep.join(seq) for a sequence of strings
RECURSIVE join(_, _)
join(sep, seq) ==
    IF Len(seq) = 0 THEN ""
    ELSE IF Len(seq) = 1 THEN seq[1]
    ELSE seq[1] \o sep \o join(sep, Tail(seq))

\* str.strip(): leading and trailing white space removed.
strip(s) ==
    LET keep == { i \in 1..Len(s) : Char(s, i) \notin SpaceChars }
    IN  IF keep = {} THEN ""
        ELSE SubSeq(s, CHOOSE i \in keep : \A j \in keep : i <= j,
                       CHOOSE i \in keep : \A j \in keep : i >= j)

\* str.count(c) for a single character c
count(s, c) == Cardinality({ i \in 1..Len(s) : Char(s, i) = c })

\* The concatenation of F(e) over the elements e of seq, in order.
RECURSIVE FlatMap(_, _)
FlatMap(F(_), seq) ==
    IF Len(seq) = 0 THEN << >>
    ELSE F(Head(seq)) \o FlatMap(F, Tail(seq))

\* str.splitlines(): the lines of s, split at \n, \r, \r\n and \f.
LineBreaks == { "\n", "\r", "\f" }

\* The lines of s from position from on, given the positions where its line
\* breaks start.
RECURSIVE LinesFrom(_, _, _)
LinesFrom(s, from, breaks) ==
    IF breaks = {}
    THEN (IF from <= Len(s) THEN << SubSeq(s, from, Len(s)) >> ELSE << >>)
    ELSE LET c == CHOOSE i \in breaks : \A j \in breaks : i <= j
             w == IF Char(s, c) = "\r" /\ c < Len(s) /\ Char(s, c + 1) = "\n"
                  THEN 2 ELSE 1
         IN  << SubSeq(s, from, c - 1) >> \o LinesFrom(s, c + w, breaks \ {c})

splitlines(s) ==
    LET brk == { i \in 1..Len(s) : Char(s, i) \in LineBreaks }
        \* the "\n" of a "\r\n" belongs to the break its "\r" starts
        starts == { i \in brk : ~(Char(s, i) = "\n" /\ (i - 1) \in brk
                                    /\ Char(s, i - 1) = "\r") }
    IN  LinesFrom(s, 1, starts)

Range(seq) == { seq[i] : i \in 1..Len(seq) }

\* seq[:n] for n >= 0
Take(seq, n) == SubSeq(seq, 1, Min(n, Len(seq)))

-----------------------------------------------------------------------------
(* find_contact_info                                                       *)

\* [\w\.-]
EmailChars == WordChars \cup { ".", "-" }

\* re.search(r'[\w\.-]+@[\w\.-]+', text): the match, or None.  The match is
\* around the first "@" that has a character of the class on both sides, and
\* spans the longest runs of the class before and after it.
email_search(s) ==
    LET ats == { p \in 2..(Len(s) - 1) :
                    /\ Char(s, p) = "@"
                    /\ Char(s, p - 1) \in EmailChars
                    /\ Char(s, p + 1) \in EmailChars }
    IN  IF ats = {} THEN None
        ELSE LET p == CHOOSE i \in ats : \A j \in ats : i <= j
                 a == CHOOSE i \in 1..(p - 1) :
                        /\ \A k \in i..(p - 1) : Char(s, k) \in EmailChars
                        /\ (i = 1 \/ Char(s, i - 1) \notin EmailChars)
                 b == CHOOSE i \in (p + 1)..Len(s) :
                        /\ \A k \in (p + 1)..i : Char(s, k) \in EmailChars
                        /\ (i = Len(s) \/ Char(s, i + 1) \notin EmailChars)
             IN  SubSeq(s, a, b)

(* The phone pattern, matched as re matches it.  DigitRun, OptSep, OptPlus, *)
(* PhoneGroup and PhonePrefix give, for the offset i reached in s, the     *)
(* offsets where the sub-pattern can end, in the order the backtracking    *)
(* search tries them; PhoneFinal, PhoneGroups and PhoneMatch give the      *)
(* offset where the first alternative that matches the rest of the pattern *)
(* ends, or -1.  In a list of alternatives, -1 stands for going on without *)
(* the optional sub-pattern.                                               *)

\* \d{lo,hi} (greedy)
DigitRun(s, i, lo, hi) ==
    LET IsRun(n) == i + n <= Len(s) /\ \A k \in 1..n : Char(s, i + k) \in DigitChars
        tries == [ k \in 1..(hi - lo + 1) |-> hi - k + 1 ]
    IN  FlatMap(LAMBDA n : IF IsRun(n) THEN << i + n >> ELSE << >>, tries)

\* [\s-]
PhoneSepChars == SpaceChars \cup { "-" }

\* What a match of the phone pattern can start with: \+ or \d.
PhoneFirstChars == DigitChars \cup { "+" }

\* [\s-]?
OptSep(s, i) ==
    IF i < Len(s) /\ Char(s, i + 1) \in PhoneSepChars
    THEN << i + 1, i >> ELSE << i >>

\* \+?
OptPlus(s, i) ==
    IF i < Len(s) /\ Char(s, i + 1) = "+" THEN << i + 1, i >> ELSE << i >>

\* \d{2,4}[\s-]?
PhoneGroup(s, i) == FlatMap(LAMBDA j : OptSep(s, j), DigitRun(s, i, 2, 4))

\* \+?\d{2,3}[\s-]?
PhonePrefix(s, i) ==
    FlatMap(LAMBDA j : FlatMap(LAMBDA m : OptSep(s, m), DigitRun(s, j, 2, 3)),
            OptPlus(s, i))

\* F(e) for the first e of seq where it is not -1; -1 when there is none.
RECURSIVE First(_, _)
First(F(_), seq) ==
    IF Len(seq) = 0 THEN -1
    ELSE LET r == F(Head(seq))
         IN  IF r # -1 THEN r ELSE First(F, Tail(seq))

\* the closing \d{2,4}
PhoneFinal(s, i) ==
    LET ends == DigitRun(s, i, 2, 4)
    IN  IF ends = << >> THEN -1 ELSE Head(ends)

\* (?:\d{2,4}[\s-]?){2,4}\d{2,4} with k repetitions of the group matched:
\* one more repetition is tried before the closing digits are.
RECURSIVE PhoneGroups(_, _, _)
PhoneGroups(s, k, i) ==
    First(LAMBDA j : IF j # -1 THEN PhoneGroups(s, k + 1, j)
                     ELSE IF k >= 2 THEN PhoneFinal(s, i)
                     ELSE -1,
          (IF k < 4 THEN PhoneGroup(s, i) ELSE << >>) \o << -1 >>)

\* The whole pattern from offset i: with the optional prefix, then without.
PhoneMatch(s, i) ==
    First(LAMBDA j : PhoneGroups(s, 0, j), PhonePrefix(s, i) \o << i >>)

\* The match that ends[i] tells of: ends[i] is the offset where the match
\* from offset i ends, or -1.  The leftmost one is the match.
LeftmostMatch(s, ends) ==
    LET starts == { i \in DOMAIN ends : ends[i] # -1 }
    IN  IF starts = {} THEN None
        ELSE SubSeq(s, MinOf(starts) + 1, ends[MinOf(starts)])

\* re.search(r'(?:\+?\d{2,3}[\s-]?)?(?:\d{2,4}[\s-]?){2,4}\d{2,4}', text):
\* the match, or None.  A match holds six digits at least, so it can start
\* only where a digit or a "+" stands.
phone_search(s) ==
    LeftmostMatch(s, [ i \in 0..(Len(s) - 6) |->
                         IF Char(s, i + 1) \in PhoneFirstChars
                         THEN PhoneMatch(s, i) ELSE -1 ])

find_contact_info(t) ==
    [ email |-> email_search(OrEmpty(t)), phone |-> phone_search(OrEmpty(t)) ]

-----------------------------------------------------------------------------
(* score_resume                                                            *)

weights == [ contact |-> 15, title |-> 15, keywords |-> 40, length |-> 10,
             formatting |-> 10 ]

\* A contact component that gives the full weight for either of the two.
\* The contact component for what find_contact_info returned.
ContactWeight(email, phone) ==
    IF Truthy(email) /\ Truthy(phone) THEN FromInt(weights.contact)
    ELSE IF Truthy(email) \/ Truthy(phone)
         THEN DTimes(weights.contact, Div(6, 10))
    ELSE FromInt(0)

\* A contact component that gives the full weight for either of the two.
contact_score_either(cv) ==
    LET info == find_contact_info(cv)
    IN  IF Truthy(info.email) \/ Truthy(info.phone)
        THEN FromInt(weights.contact) ELSE FromInt(0)

contact_score(cv) ==
    LET c == find_contact_info(cv)
    IN  ContactWeight(c.email, c.phone)

title_score(cv, title) ==
    IF Truthy(title) /\ In(lower(title), lower(OrEmpty(cv)))
    THEN FromInt(weights.title) ELSE FromInt(0)

keyword_score(cv, kws) ==
    LET lowered == [ i \in 1..Len(kws) |-> lower(kws[i]) ]
        cv_lower == lower(OrEmpty(cv))
        matched == Cardinality({ k \in Range(lowered) : In(k, cv_lower) })
    IN  IF Len(lowered) > 0
        THEN DTimes(weights.keywords, Div(matched, Max(1, Len(lowered))))
        ELSE DTimes(weights.keywords, Div(5, 10))

LengthFull == 1000

LengthPartial == 500

length_score(cv) ==
    LET chars == Len(OrEmpty(cv))
    IN  IF chars > LengthFull THEN FromInt(weights.length)
        ELSE IF chars > LengthPartial
             THEN DTimes(weights.length, Div(6, 10))
        ELSE FromInt(0)

LongLine == 200

MaxTabs == 5

MaxLongLines == 5

formatting_score(cv) ==
    LET t == OrEmpty(cv)
        non_ascii == Cardinality({ i \in 1..Len(t) : Char(t, i) \in NonAsciiChars })
        tabs == count(t, "\t")
        lines == splitlines(t)
        long_lines == Cardinality({ i \in 1..Len(lines) : Len(lines[i]) > LongLine })
    IN  IF \/ DLess(Div(2, 100), Div(non_ascii, Max(1, Len(t))))
           \/ tabs > MaxTabs
           \/ long_lines > MaxLongLines
        THEN DTimes(weights.formatting, Div(5, 10))
        ELSE FromInt(weights.formatting)

\* total += component for each component in turn, from the int 0.
Sum(parts) ==
    DAdd(DAdd(DAdd(DAdd(DAdd(FromInt(0), parts[1]), parts[2]), parts[3]),
              parts[4]), parts[5])

\* The breakdown: every component rounded to one decimal.
Breakdown(parts) ==
    [ contact_score |-> Round1(parts[1]), title_score |-> Round1(parts[2]),
      keyword_score |-> Round1(parts[3]), length_score |-> Round1(parts[4]),
      formatting_score |-> Round1(parts[5]) ]

\* A score_resume whose total is rounded to one decimal, as the components
\* of the breakdown are.
score_resume_one_decimal(cv, kws, title) ==
    LET parts == << contact_score(cv), title_score(cv, title),
                    keyword_score(cv, kws), length_score(cv),
                    formatting_score(cv) >>
    IN  [ total |-> FMin(Int1(100), Round1(Sum(parts))),
          breakdown |-> Breakdown(parts) ]

\* The components in the order the code computes and adds them, the total
\* min(100, round(total)), and the breakdown.
score_resume(cv, kws, title) ==
    LET parts == << contact_score(cv), title_score(cv, title),
                    keyword_score(cv, kws), length_score(cv),
                    formatting_score(cv) >>
    IN  [ total |-> FMin(Int1(100), Round(Sum(parts))),
          breakdown |-> Breakdown(parts) ]

-----------------------------------------------------------------------------
(* detect_ats                                                              *)

\* The table, in the order of its entries.
ATS_PATTERNS ==
    << [ name |-> "Greenhouse",
         domains |-> << "greenhouse.io", "greenhouse.io/people", "greenhousehire.com" >>,
         signatures |-> << "greenhouse", "powered by greenhouse" >> ],
       [ name |-> "Lever",
         domains |-> << "lever.co", "jobs.lever.co", "hire.lever.co" >>,
         signatures |-> << "lever", "apply.lever" >> ],
       [ name |-> "Workday",
         domains |-> << "workday.com", "myworkdayjobs.com", "workdayjobs.com" >>,
         signatures |-> << "workday" >> ],
       [ name |-> "iCIMS",
         domains |-> << "icims.com", "careers.icims.com" >>,
         signatures |-> << "icims" >> ],
       [ name |-> "SmartRecruiters",
         domains |-> << "smartrecruiters.com" >>,
         signatures |-> << "smartrecruiters" >> ],
       [ name |-> "Jobvite",
         domains |-> << "jobvite.com", "jobs.jobvite.com" >>,
         signatures |-> << "jobvite" >> ],
       [ name |-> "Taleo",
         domains |-> << "taleo.net", "oraclecloud.com", "taleo.io" >>,
         signatures |-> << "taleo" >> ],
       [ name |-> "SuccessFactors",
         domains |-> << "successfactors.com", "sapsf.com" >>,
         signatures |-> << "successfactors", "sap successfactors" >> ],
       [ name |-> "Workable",
         domains |-> << "workable.com" >>,
         signatures |-> << "workable" >> ],
       [ name |-> "BambooHR",
         domains |-> << "bamboohr.com" >>,
         signatures |-> << "bamboohr" >> ],
       [ name |-> "ApplicantPro",
         domains |-> << "applicantpro.com" >>,
         signatures |-> << "applicantpro" >> ] >>

\* What a call returns in place of a value when it raises ValueError; no
\* label equals it.
ValueError == "<ValueError>"

\* The characters of s that are not in drop, in order.
RECURSIVE Without(_, _)
Without(s, drop) ==
    IF Len(s) = 0 THEN s
    ELSE IF Len(s) = 1 THEN (IF s \in drop THEN "" ELSE s)
    ELSE LET h == Len(s) \div 2
         IN  Without(SubSeq(s, 1, h), drop) \o Without(SubSeq(s, h + 1, Len(s)), drop)

\* str.lstrip() of white space
lstrip(s) ==
    LET keep == { i \in 1..Len(s) : Char(s, i) \notin SpaceChars }
    IN  IF keep = {} THEN "" ELSE SubSeq(s, MinOf(keep), Len(s))

\* scheme_chars of urllib.parse
SchemeChars == AsciiLetters \cup DigitChars \cup { "+", "-", "." }

\* s.split(c) for a character c.
split(s, c) ==
    LET at == Sorted({ i \in 1..Len(s) : Char(s, i) = c }, Len(s))
        cut == << 0 >> \o at \o << Len(s) + 1 >>
    IN  [ k \in 1..(Len(at) + 1) |-> SubSeq(s, cut[k] + 1, cut[k + 1] - 1) ]

\* s.partition(c)[0]: s up to the first c, all of s when it holds none.
UpTo(s, c) ==
    LET at == { i \in 1..Len(s) : Char(s, i) = c }
    IN  IF at = {} THEN s ELSE SubSeq(s, 1, MinOf(at) - 1)

\* s.partition(c)[2]: s after the first c, "" when it holds none.
Beyond(s, c) ==
    LET at == { i \in 1..Len(s) : Char(s, i) = c }
    IN  IF at = {} THEN "" ELSE SubSeq(s, MinOf(at) + 1, Len(s))

\* _HEX_DIGITS of ipaddress
HexDigits == DigitChars \cup Chars("ABCDEFabcdef")

\* IPv4Address(s) is an address, not an AddressValueError.
IsIPv4(s) ==
    LET \* int(o) of a text of decimal digits.
        RECURSIVE IntOf(_)
        IntOf(o) ==
            IF o = "" THEN 0
            ELSE 10 * IntOf(SubSeq(o, 1, Len(o) - 1))
                 + (CHOOSE d \in 0..9 : Char(digits, d + 1) = Char(o, Len(o)))
        \* IPv4Address._parse_octet accepts the text.
        IsOctet(o) ==
            /\ o # ""
            /\ \A i \in 1..Len(o) : Char(o, i) \in DigitChars
            /\ Len(o) <= 3
            /\ o = "0" \/ Char(o, 1) # "0"
            /\ IntOf(o) <= 255
    IN  /\ ~In("/", s)
        /\ s # ""
        /\ Len(split(s, ".")) = 4
        /\ \A i \in 1..4 : IsOctet(split(s, ".")[i])

\* IPv6Address(s) is an address, not an AddressValueError.
IsIPv6(s) ==
    LET addr == UpTo(s, "%")
        scope_id == Beyond(s, "%")
        parts == split(addr, ":")
        \* IPv6Address._parse_hextet accepts the text.
        IsHextet(h) ==
            /\ \A i \in 1..Len(h) : Char(h, i) \in HexDigits
            /\ Len(h) <= 4
            /\ h # ""
        \* IPv6Address._ip_int_from_string accepts these parts, the texts
        \* between the colons, an IPv4 suffix already replaced by its two
        \* hextets.
        IsIPv6Parts(ps) ==
            LET n == Len(ps)
                \* the places of a '::' with nothing in between, the ends
                \* left out
                skips == { i \in 2..(n - 1) : ps[i] = "" }
                skip == MinOf(skips)
                parts_hi == skip - 1 - (IF ps[1] = "" THEN 1 ELSE 0)
                parts_lo == n - skip - (IF ps[n] = "" THEN 1 ELSE 0)
            IN  /\ n <= 9
                /\ Cardinality(skips) <= 1
                /\ IF skips # {}
                   THEN /\ ps[1] = "" => parts_hi = 0
                        /\ ps[n] = "" => parts_lo = 0
                        /\ 8 - (parts_hi + parts_lo) >= 1
                        /\ \A i \in 1..parts_hi : IsHextet(ps[i])
                        /\ \A i \in (n - parts_lo + 1)..n : IsHextet(ps[i])
                   ELSE /\ n = 8
                        /\ ps[1] # ""
                        /\ ps[n] # ""
                        /\ \A i \in 1..n : IsHextet(ps[i])
    IN  /\ ~In("/", s)
        /\ In("%", s) => (scope_id # "" /\ ~In("%", scope_id))
        /\ addr # ""
        /\ Len(parts) >= 3
        /\ IF In(".", parts[Len(parts)])
           THEN /\ IsIPv4(parts[Len(parts)])
                /\ IsIPv6Parts(SubSeq(parts, 1, Len(parts) - 1) \o << "0", "0" >>)
           ELSE IsIPv6Parts(parts)

\* _check_bracketed_host(hostname) returns, it raises no ValueError: the
\* host is an IPvFuture address or an IPv6 address.
check_bracketed_host(hostname) ==
    LET dot == Len(UpTo(hostname, ".")) + 1
        \* re.match(r"\Av[a-fA-F0-9]+\..+\Z", hostname) for a hostname that
        \* starts with "v"
        IsIPvFuture ==
            /\ dot >= 3
            /\ dot < Len(hostname)
            /\ \A i \in 2..(dot - 1) : Char(hostname, i) \in HexDigits
            /\ ~In("\n", hostname)
    IN  IF hostname # "" /\ Char(hostname, 1) = "v" THEN IsIPvFuture
        ELSE ~IsIPv4(hostname) /\ IsIPv6(hostname)

\* urlparse(u).netloc as urllib.parse of Python 3.11 computes it for a str u
\* of the model's characters, or ValueError where urlparse raises one: for
\* a netloc with one of "[" and "]" and not the other, and for a netloc
\* with both whose text from the first "[" to the next "]" is no IPv6 or
\* IPvFuture address.  (_checknetloc lets every netloc of the model's
\* characters pass: their NFKC forms are the characters themselves.)
netloc(u) ==
    LET \* leading white space is stripped, then \t, \r and \n are removed
        clean == Without(lstrip(u), { "\t", "\r", "\n" })
        colons == { i \in 1..Len(clean) : Char(clean, i) = ":" }
        colon == IF colons = {} THEN 0 ELSE MinOf(colons)
        has_scheme ==
            /\ colon > 1
            /\ Char(clean, 1) \in AsciiLetters
            /\ \A k \in 1..(colon - 1) : Char(clean, k) \in SchemeChars
        rest == IF has_scheme THEN SubSeq(clean, colon + 1, Len(clean)) ELSE clean
        delims == { i \in 3..Len(rest) : Char(rest, i) \in { "/", "?", "#" } }
        loc == IF delims = {} THEN SubSeq(rest, 3, Len(rest))
               ELSE SubSeq(rest, 3, MinOf(delims) - 1)
    IN  IF SubSeq(rest, 1, Min(2, Len(rest))) # "//" THEN ""
        ELSE IF In("[", loc) # In("]", loc) THEN ValueError
        ELSE IF In("[", loc) /\ ~check_bracketed_host(UpTo(Beyond(loc, "["), "]"))
             THEN ValueError
        ELSE loc

\* Counter(matches).most_common(1)[0][0] for a non-empty list: the name
\* counted most often, the one that came first in the list among equals.
most_common(matches) ==
    LET Count(n) == Cardinality({ i \in 1..Len(matches) : matches[i] = n })
        FirstAt(n) == MinOf({ i \in 1..Len(matches) : matches[i] = n })
    IN  CHOOSE n \in Range(matches) :
            \A m \in Range(matches) :
                \/ Count(n) > Count(m)
                \/ (Count(n) = Count(m) /\ FirstAt(n) <= FirstAt(m))

\* [A-Za-z0-9\-]
TokenChars == AsciiLetters \cup DigitChars \cup { "-" }

\* re.search(r'powered by\s+([A-Za-z0-9\-]+)', s): group 1 of the match, or
\* None.  The match starts at the first "powered by" that white space and
\* then a character of the token follow.
powered_by(s) ==
    LET lead == "powered by"
        \* the offset where the white space after offset i ends
        SpaceEnd(i) ==
            IF \A k \in (i + 1)..Len(s) : Char(s, k) \in SpaceChars THEN Len(s)
            ELSE MinOf({ k \in (i + 1)..Len(s) : Char(s, k) \notin SpaceChars }) - 1
        TokenEnd(i) ==
            IF \A k \in (i + 1)..Len(s) : Char(s, k) \in TokenChars THEN Len(s)
            ELSE MinOf({ k \in (i + 1)..Len(s) : Char(s, k) \notin TokenChars }) - 1
        hits == { i \in 0..(Len(s) - Len(lead)) :
                    /\ SubSeq(s, i + 1, i + Len(lead)) = lead
                    /\ SpaceEnd(i + Len(lead)) > i + Len(lead)
                    /\ TokenEnd(SpaceEnd(i + Len(lead))) > SpaceEnd(i + Len(lead)) }
    IN  IF hits = {} THEN None
        ELSE LET t == SpaceEnd(MinOf(hits) + Len(lead))
             IN  SubSeq(s, t + 1, TokenEnd(t))

detect_ats(u, h) ==
    LET url_l == lower(OrEmpty(u))
        html_l == lower(OrEmpty(h))
        domain == IF url_l # "" THEN netloc(url_l) ELSE ""
        ByDomain(e) ==
            IF \E i \in 1..Len(e.domains) :
                    In(e.domains[i], url_l) \/ In(e.domains[i], domain)
            THEN << e.name >> ELSE << >>
        BySignature(e) ==
            IF \E i \in 1..Len(e.signatures) : In(e.signatures[i], html_l)
            THEN << e.name >> ELSE << >>
        matches == FlatMap(LAMBDA e : ByDomain(e) \o BySignature(e), ATS_PATTERNS)
        m == powered_by(html_l)
    IN  IF domain = ValueError THEN ValueError
        ELSE IF matches # << >> THEN most_common(matches)
        ELSE IF m # None THEN capitalize(m)
        ELSE "Unknown/Custom"

-----------------------------------------------------------------------------
(* extract_keywords                                                        *)

STOPWORDS ==
    { "the", "a", "an", "and", "or", "to", "of", "for", "with", "on", "in",
      "at", "by", "from", "as", "is", "are", "that", "this", "will", "be" }

MinTokenLen == 2

\* re.sub(r'[^A-Za-z0-9\-\s]', ' ', t).split(): the longest runs of letters,
\* digits and hyphens of t, in order (every other character is white space
\* or is replaced by a space).
Words(t) ==
    LET starts == { i \in 1..Len(t) :
                      /\ Char(t, i) \in TokenChars
                      /\ (i = 1 \/ Char(t, i - 1) \notin TokenChars) }
        EndOf(i) ==
            IF \A k \in i..Len(t) : Char(t, k) \in TokenChars THEN Len(t)
            ELSE MinOf({ k \in i..Len(t) : Char(t, k) \notin TokenChars }) - 1
        order == Sorted(starts, Len(t))
    IN  [ n \in 1..Len(order) |-> SubSeq(t, order[n], EndOf(order[n])) ]

\* Tokens that drop the stopwords before lowercasing instead of after.
Tokens_stopwords_first(t) ==
    LET long == SelectSeq(Words(OrEmpty(t)), LAMBDA w : Len(w) > MinTokenLen)
        kept == SelectSeq(long, LAMBDA w : w \notin STOPWORDS)
    IN  [ i \in 1..Len(kept) |-> lower(kept[i]) ]

\* The tokens counted: the words longer than two characters, lowercased,
\* without the stopwords.
Tokens(t) ==
    LET long == SelectSeq(Words(OrEmpty(t)), LAMBDA w : Len(w) > MinTokenLen)
        lowered == [ i \in 1..Len(long) |-> lower(long[i]) ]
    IN  SelectSeq(lowered, LAMBDA w : w \notin STOPWORDS)

\* Counter(tokens).most_common(): the distinct tokens, the more frequent
\* first, and among equally frequent ones the one met first.
MostCommon(tokens) ==
    LET Count(w) == Cardinality({ i \in 1..Len(tokens) : tokens[i] = w })
        FirstAt(w) == MinOf({ i \in 1..Len(tokens) : tokens[i] = w })
        Before(v, w) ==
            \/ Count(v) > Count(w)
            \/ (Count(v) = Count(w) /\ FirstAt(v) < FirstAt(w))
        distinct == Range(tokens)
        Rank(w) == Cardinality({ v \in distinct : Before(v, w) })
    IN  [ r \in 1..Cardinality(distinct) |->
            CHOOSE w \in distinct : Rank(w) = r - 1 ]

\* n is an int >= 0.
extract_keywords(t, n) == Take(MostCommon(Tokens(t)), n)

-----------------------------------------------------------------------------
(* extract_job_text_from_html                                              *)
(* The parsed document is [body |-> whether it has a body element,         *)
(* elements |-> its elements in document order], an element being          *)
(* [tag, class, id, strings]: its tag name, its class and id attributes    *)
(* ("" when it has none) and its text nodes in order.  No element lies     *)
(* inside another one, and every text node lies in an element of the body. *)

\* The selectors, in the order they are tried: an attribute that contains a
\* fragment, or a tag name.
selectors ==
    << [ attr |-> "class", has |-> "description" ],
       [ attr |-> "class", has |-> "job-description" ],
       [ attr |-> "class", has |-> "jobDescription" ],
       [ attr |-> "id", has |-> "job-" ],
       [ attr |-> "tag", has |-> "article" ],
       [ attr |-> "tag", has |-> "main" ],
       [ attr |-> "tag", has |-> "section" ],
       [ attr |-> "class", has |-> "posting" ] >>

Matches(sel, el) ==
    IF sel.attr = "class" THEN In(sel.has, el.class)
    ELSE IF sel.attr = "id" THEN In(sel.has, el.id)
    ELSE el.tag = sel.has

\* soup.select_one(sel): the position of the first element that matches, or 0.
select_one(doc, sel) ==
    LET hits == { i \in 1..Len(doc.elements) : Matches(sel, doc.elements[i]) }
    IN  IF hits = {} THEN 0 ELSE MinOf(hits)

\* get_text(separator=sep, strip=True) over text nodes: each stripped, the
\* empty ones dropped, joined by sep.
get_text(strings, sep) ==
    LET stripped == [ i \in 1..Len(strings) |-> strip(strings[i]) ]
    IN  join(sep, SelectSeq(stripped, LAMBDA t : t # ""))

\* The text nodes of the body.
BodyStrings(doc) == FlatMap(LAMBDA e : e.strings, doc.elements)

\* re.sub(r'\s+', ' ', s)
collapse(s) ==
    LET \* a white space character that does not follow another one
        heads == { i \in 1..Len(s) :
                     /\ Char(s, i) \in SpaceChars
                     /\ (i = 1 \/ Char(s, i - 1) \notin SpaceChars) }
        Piece(i) == IF Char(s, i) \notin SpaceChars THEN Char(s, i)
                    ELSE IF i \in heads THEN " " ELSE ""
    IN  Concat(Piece, 1, Len(s))

MinJobText == 200

\* The loop over the selectors from the k-th on, candidate_text being cand.
RECURSIVE Candidates(_, _, _)
Candidates(doc, k, cand) ==
    IF k > Len(selectors) THEN cand
    ELSE LET el == select_one(doc, selectors[k])
         IN  IF el # 0 /\ get_text(doc.elements[el].strings, "") # ""
             THEN LET t == get_text(doc.elements[el].strings, " ")
                  IN  IF Len(t) > MinJobText THEN t
                      ELSE Candidates(doc, k + 1, t)
             ELSE Candidates(doc, k + 1, cand)

extract_job_text_from_html(doc) ==
    LET found == Candidates(doc, 1, "")
        candidate_text ==
            IF found = "" /\ doc.body THEN get_text(BodyStrings(doc), " ")
            ELSE found
    IN  collapse(candidate_text)

-----------------------------------------------------------------------------
(* create_revamped_docx                                                    *)
(* The document is the sequence of what was added to it:                   *)
(* [kind |-> "heading", level, text] or [kind |-> "paragraph", style,      *)
(* text], the style being "" where none was given.  A paragraph keeps the  *)
(* text it was added with.                                                 *)

Heading(t, level) == [ kind |-> "heading", level |-> level, style |-> "", text |-> t ]

Paragraph(t, style) == [ kind |-> "paragraph", level |-> 0, style |-> style, text |-> t ]

MaxFocusKeywords == 12

MaxSkills == 30

FullCvHeading == "Full CV (original content)"

\* A create_revamped_docx that adds each non-blank line as it is.
create_revamped_docx_verbatim(original_text, email, phone, title, kws) ==
    LET header_lines == (IF Truthy(email) THEN << email >> ELSE << >>)
                            \o (IF Truthy(phone) THEN << phone >> ELSE << >>)
        header_text == IF header_lines # << >> THEN join(" | ", header_lines)
                       ELSE "Contact information"
        summary == "Targeting role: "
                      \o (IF Truthy(title) THEN title ELSE "Relevant role")
                      \o (IF kws # << >>
                          THEN "\nKey focus areas: " \o join(", ", Take(kws, MaxFocusKeywords))
                          ELSE "")
        skills == IF kws # << >>
                  THEN [ i \in 1..Min(MaxSkills, Len(kws)) |-> Paragraph(kws[i], "List Bullet") ]
                  ELSE << Paragraph("See original CV for full skill details.", "") >>
        lines == SelectSeq(splitlines(OrEmpty(original_text)), LAMBDA l : strip(l) # "")
        body == [ i \in 1..Len(lines) |-> Paragraph(lines[i], "") ]
    IN  << Heading("Keyword-optimized CV", 1), Paragraph(header_text, ""),
           Heading("Professional Summary", 2), Paragraph(summary, ""),
           Heading("Key Skills", 2) >>
        \o skills \o << Heading(FullCvHeading, 2) >> \o body

create_revamped_docx(original_text, email, phone, title, kws) ==
    LET header_lines == (IF Truthy(email) THEN << email >> ELSE << >>)
                            \o (IF Truthy(phone) THEN << phone >> ELSE << >>)
        header_text == IF header_lines # << >> THEN join(" | ", header_lines)
                       ELSE "Contact information"
        summary == "Targeting role: "
                      \o (IF Truthy(title) THEN title ELSE "Relevant role")
                      \o (IF kws # << >>
                          THEN "\nKey focus areas: " \o join(", ", Take(kws, MaxFocusKeywords))
                          ELSE "")
        skills == IF kws # << >>
                  THEN [ i \in 1..Min(MaxSkills, Len(kws)) |-> Paragraph(kws[i], "List Bullet") ]
                  ELSE << Paragraph("See original CV for full skill details.", "") >>
        lines == SelectSeq(splitlines(OrEmpty(original_text)), LAMBDA l : strip(l) # "")
        body == [ i \in 1..Len(lines) |-> Paragraph(strip(lines[i]), "") ]
    IN  << Heading("Keyword-optimized CV", 1), Paragraph(header_text, ""),
           Heading("Professional Summary", 2), Paragraph(summary, ""),
           Heading("Key Skills", 2) >>
        \o skills \o << Heading(FullCvHeading, 2) >> \o body

-----------------------------------------------------------------------------
(* build_improvement_tips                                                  *)
(* In the tips, a character beyond Latin-1 is written as its \uXXXX escape. *)

GENERIC_TIPS ==
    << "Use a single-column layout: most ATS parse single-column text better than multi-column or tables.",
       "Prefer standard section headings: \"Work Experience\", \"Education\", \"Skills\", \"Contact\".",
       "Save as DOCX or a simple PDF (DOCX is usually safest). Avoid images, text in headers/footers, and fancy graphics.",
       "Use standard date formats (e.g., Apr 2020 \\u2013 Feb 2023).",
       "Include a concise skills section listing keywords from the job advert.",
       "Avoid special characters and excessive symbols (they sometimes break parsers)." >>

ATS_TIPS ==
    ("Greenhouse" :>
        << "Greenhouse parses plain DOCX well; avoid placing contact information inside headers/footers.",
           "Use clear bullets for accomplishments and avoid images or complex tables." >>)
    @@ ("Lever" :>
        << "Lever-based career pages prefer standard section headings and clear dates per job role.",
           "Avoid embedding text inside text-boxes or columns." >>)
    @@ ("Workday" :>
        << "Workday can struggle with multi-column layouts; use single column and plain fonts.",
           "Place your contact details at the top in plain text (not header/footer)." >>)
    @@ ("iCIMS" :>
        << "iCIMS works well with DOCX \\u2014 keep skills in a dedicated section and use plain bullets." >>)
    @@ ("Taleo" :>
        << "Taleo-based portals sometimes struggle with special characters \\u2014 remove emoji and fancy bullets." >>)
    @@ ("Unknown/Custom" :>
        << "This appears to be a custom portal. Follow generic ATS best-practices: simple DOCX, clear headings, no images." >>)

\* str(n) for an int n >= 0
RECURSIVE Decimal(_)
Decimal(n) ==
    IF n < 10 THEN Char(digits, n + 1)
    ELSE Decimal(n \div 10) \o Char(digits, (n % 10) + 1)

\* '{:.0f}'.format(x) for a number x >= 0
Format0f(x) == Decimal(RoundHalfEven(x.num, x.den))

GreatTip(sc) ==
    "Great \\u2014 your CV scored " \o Format0f(sc)
        \o ". Minor tweaks can still help, but it is ATS-friendly."

SummaryTip(sc) ==
    "Your CV scored " \o Format0f(sc)
        \o "/100. Here are prioritized improvement tips:"

ExperienceTip == "Add a clear \"Work Experience\" section with job titles and dates."

EmailTip == "Add a visible email address at the top of the CV."

PhoneTip == "Add a phone number at the top of the CV."

KeywordsTipHead == "Include more of these job-specific keywords where truthful: "

MaxMissingShown == 12

GenericShown == 3

TipsThreshold == 85

\* A build_improvement_tips that congratulates only above the threshold.
build_improvement_tips_above(sc, ats, cv, kws) ==
    IF FLess(Int1(TipsThreshold), sc) THEN << GreatTip(sc) >>
    ELSE
        LET ats_specific == IF ats \in DOMAIN ATS_TIPS THEN ATS_TIPS[ats]
                            ELSE ATS_TIPS["Unknown/Custom"]
            experience ==
                IF ~In("Work Experience", cv) /\ ~In("Experience", cv)
                THEN << ExperienceTip >> ELSE << >>
            c == find_contact_info(cv)
            email == IF ~Truthy(c.email) THEN << EmailTip >> ELSE << >>
            phone == IF ~Truthy(c.phone) THEN << PhoneTip >> ELSE << >>
            cv_lower == lower(OrEmpty(cv))
            missing == SelectSeq(kws, LAMBDA k : ~In(lower(k), cv_lower))
            keywords ==
                IF Len(kws) > 0 /\ Len(missing) > 0
                THEN << KeywordsTipHead \o join(", ", Take(missing, MaxMissingShown)) >>
                ELSE << >>
        IN  << SummaryTip(sc) >> \o ats_specific \o experience \o email \o phone
                \o keywords \o Take(GENERIC_TIPS, GenericShown)

\* A build_improvement_tips that puts the keywords tip before the contact tips.
build_improvement_tips_keywords_first(sc, ats, cv, kws) ==
    IF ~FLess(sc, Int1(TipsThreshold)) THEN << GreatTip(sc) >>
    ELSE
        LET ats_specific == IF ats \in DOMAIN ATS_TIPS THEN ATS_TIPS[ats]
                            ELSE ATS_TIPS["Unknown/Custom"]
            experience ==
                IF ~In("Work Experience", cv) /\ ~In("Experience", cv)
                THEN << ExperienceTip >> ELSE << >>
            c == find_contact_info(cv)
            email == IF ~Truthy(c.email) THEN << EmailTip >> ELSE << >>
            phone == IF ~Truthy(c.phone) THEN << PhoneTip >> ELSE << >>
            cv_lower == lower(OrEmpty(cv))
            missing == SelectSeq(kws, LAMBDA k : ~In(lower(k), cv_lower))
            keywords ==
                IF Len(kws) > 0 /\ Len(missing) > 0
                THEN << KeywordsTipHead \o join(", ", Take(missing, MaxMissingShown)) >>
                ELSE << >>
        IN  << SummaryTip(sc) >> \o ats_specific \o experience \o keywords
                \o email \o phone \o Take(GENERIC_TIPS, GenericShown)

\* A build_improvement_tips that looks for the keywords in the CV as written,
\* not lowercased.
build_improvement_tips_as_written(sc, ats, cv, kws) ==
    IF ~FLess(sc, Int1(TipsThreshold)) THEN << GreatTip(sc) >>
    ELSE
        LET ats_specific == IF ats \in DOMAIN ATS_TIPS THEN ATS_TIPS[ats]
                            ELSE ATS_TIPS["Unknown/Custom"]
            experience ==
                IF ~In("Work Experience", cv) /\ ~In("Experience", cv)
                THEN << ExperienceTip >> ELSE << >>
            c == find_contact_info(cv)
            email == IF ~Truthy(c.email) THEN << EmailTip >> ELSE << >>
            phone == IF ~Truthy(c.phone) THEN << PhoneTip >> ELSE << >>
            cv_lower == OrEmpty(cv)
            missing == SelectSeq(kws, LAMBDA k : ~In(lower(k), cv_lower))
            keywords ==
                IF Len(kws) > 0 /\ Len(missing) > 0
                THEN << KeywordsTipHead \o join(", ", Take(missing, MaxMissingShown)) >>
                ELSE << >>
        IN  << SummaryTip(sc) >> \o ats_specific \o experience \o email \o phone
                \o keywords \o Take(GENERIC_TIPS, GenericShown)

\* cv is a str (the function raises on None); sc is a number.
build_improvement_tips(sc, ats, cv, kws) ==
    IF ~FLess(sc, Int1(TipsThreshold)) THEN << GreatTip(sc) >>
    ELSE
        LET ats_specific == IF ats \in DOMAIN ATS_TIPS THEN ATS_TIPS[ats]
                            ELSE ATS_TIPS["Unknown/Custom"]
            experience ==
                IF ~In("Work Experience", cv) /\ ~In("Experience", cv)
                THEN << ExperienceTip >> ELSE << >>
            c == find_contact_info(cv)
            email == IF ~Truthy(c.email) THEN << EmailTip >> ELSE << >>
            phone == IF ~Truthy(c.phone) THEN << PhoneTip >> ELSE << >>
            cv_lower == lower(OrEmpty(cv))
            missing == SelectSeq(kws, LAMBDA k : ~In(lower(k), cv_lower))
            keywords ==
                IF Len(kws) > 0 /\ Len(missing) > 0
                THEN << KeywordsTipHead \o join(", ", Take(missing, MaxMissingShown)) >>
                ELSE << >>
        IN  << SummaryTip(sc) >> \o ats_specific \o experience \o email \o phone
                \o keywords \o Take(GENERIC_TIPS, GenericShown)

-----------------------------------------------------------------------------
(* The calls.  Every specification below draws the arguments of one        *)
(* function in its initial state and has the call return in one step.      *)

\* The subsets of 1..n with at most k elements.
SmallSubsets(n, k) == { S \in SUBSET (1..n) : Cardinality(S) <= k }

\* The elements of seq at the positions in S, in order.
Select(seq, S) ==
    LET F[i \in 0..Len(seq)] ==
            IF i = 0 THEN << >>
            ELSE IF i \in S THEN Append(F[i - 1], seq[i]) ELSE F[i - 1]
    IN  F[Len(seq)]

\* The sequences over the elements of pool of length at most k.
SeqsUpTo(pool, k) == UNION { [ 1..n -> pool ] : n \in 0..k }

MaxCvParts == 2

MaxKeywords == 3

\* What a CV of the score_resume calls is put together from: some of these
\* lines, then one of the bodies.
ScoreCvParts ==
    << "jane@example.com",
       "+1 555-123-4567",
       "Senior Python Developer",
       "\t\t\t\t\t\t",
       "résumé" >>

\* No body, one of 513 characters, a whole CV of more than 1000 characters
\* with its contacts and title, and one of six lines of 201 characters.
ScoreCvBodies ==
    { "",
      Repeat("lorem ipsum dolor sit amet\n", 19),
      "Jane Doe, Senior Python Developer\njane@example.com, +1 555-123-4567\n"
          \o Repeat("lorem ipsum dolor sit amet\n", 38),
      Repeat(Repeat("x", 201) \o "\n", 6) }

ScoreCvTexts ==
    { join("\n", Select(ScoreCvParts, S) \o << b >>) :
        S \in SmallSubsets(Len(ScoreCvParts), MaxCvParts), b \in ScoreCvBodies }
    \cup { None }

\* A keyword of the CV parts and one they do not hold.
ScoreKeywords == { "Python", "rust" }

\* The lists of them, and two of keywords that differ only in case.
ScoreKeywordLists ==
    SeqsUpTo(ScoreKeywords, MaxKeywords)
    \cup { << "python", "Python" >>, << "rust", "PYTHON", "python" >> }

ScoreTitles == { None, "senior python developer" }

InitScore ==
    /\ pc = "score_resume"
    /\ cv_text \in ScoreCvTexts
    /\ job_keywords \in ScoreKeywordLists
    /\ job_title \in ScoreTitles
    /\ score = None /\ ats_name = None /\ url = None /\ html_text = None
    /\ text = None /\ top_n = 0 /\ html = << >>
    /\ contact_email = None /\ contact_phone = None
    /\ result = None

args == << cv_text, job_keywords, job_title, score, ats_name, url, html_text,
           text, top_n, html, contact_email, contact_phone >>

ScoreResume ==
    /\ pc = "score_resume"
    /\ result' = score_resume(cv_text, job_keywords, job_title)
    /\ pc' = "done"
    /\ UNCHANGED args

SpecScore == InitScore /\ [][ScoreResume]_vars

MaxTipCvParts == 3

MaxTipKeywords == 14

\* What a CV of the build_improvement_tips calls is put together from.
TipCvParts ==
    << "jane@example.com",
       "+1 555-123-4567",
       "Work Experience",
       "Professional Experience: Python, Docker",
       "experience with skill5 and SKILL7" >>

TipCvTexts ==
    { join("\n", Select(TipCvParts, S)) :
        S \in SmallSubsets(Len(TipCvParts), MaxTipCvParts) }

\* A keyword list of n entries, as extract_keywords gives them.
TipKeywordList(n) ==
    [ i \in 1..n |->
        IF i = 1 THEN "python" ELSE IF i = 2 THEN "docker" ELSE "skill" \o Decimal(i) ]

\* Lists as extract_keywords gives them, and lists a caller may pass as well:
\* with an entry twice, in another case, and in capitals.
TipKeywordLists ==
    { TipKeywordList(n) : n \in 0..MaxTipKeywords }
    \cup { << "rust", "python", "rust" >>, << "Python", "python" >>, << "SKILL7", "Rust" >> }

\* The labels: some with tips of their own, one without, and the sentinel.
TipLabels == { "Greenhouse", "iCIMS", "Workable", "Unknown/Custom" }

\* The scores 0, 100 and 82 to 87 by halves.
TipScores == { Int1(0), Int1(100) } \cup { Frac(n, 2) : n \in 164..174 }

InitTips ==
    /\ pc = "build_improvement_tips"
    /\ score \in TipScores
    /\ ats_name \in TipLabels
    /\ cv_text \in TipCvTexts
    /\ job_keywords \in TipKeywordLists
    /\ job_title = None /\ url = None /\ html_text = None
    /\ text = None /\ top_n = 0 /\ html = << >>
    /\ contact_email = None /\ contact_phone = None
    /\ result = None

BuildImprovementTips ==
    /\ pc = "build_improvement_tips"
    /\ result' = build_improvement_tips(score, ats_name, cv_text, job_keywords)
    /\ pc' = "done"
    /\ UNCHANGED args

SpecTips == InitTips /\ [][BuildImprovementTips]_vars

MaxPageParts == 2

\* The URLs of the detect_ats calls: absent, empty, of a known platform by
\* host, by path and by query, of no known platform, without a scheme, with
\* an IPv6 address as the host, and ones that urlparse rejects.
AtsUrls ==
    { None, "",
      "https://boards.greenhouse.io/acme/jobs/123",
      "https://JOBS.LEVER.CO/acme",
      "https://acme.com/careers?via=greenhouse.io",
      "https://acme.com/careers",
      "//acme.wd5.myworkdayjobs.com/en-US",
      "jobs.lever.co/acme",
      "http://[",
      "http://[jobs.lever.co/acme",
      "http://[jobs.lever.co]/acme",
      "http://[2001:db8::1]/careers?via=lever.co" }

\* What a page of the detect_ats calls is put together from.
AtsPageParts ==
    << "Apply with Lever",
       "Powered by Greenhouse",
       "powered by  Acme-HR today",
       "Workday and LEVER",
       "Empowered by\n9lives",
       "Powered by: us" >>

AtsPages ==
    { join(" ", parts) : parts \in SeqsUpTo(Range(AtsPageParts), MaxPageParts) }
    \cup { None }

InitAts ==
    /\ pc = "detect_ats"
    /\ url \in AtsUrls
    /\ html_text \in AtsPages
    /\ cv_text = None /\ job_keywords = << >> /\ job_title = None
    /\ score = None /\ ats_name = None
    /\ text = None /\ top_n = 0 /\ html = << >>
    /\ contact_email = None /\ contact_phone = None
    /\ result = None

DetectAts ==
    /\ pc = "detect_ats"
    /\ result' = detect_ats(url, html_text)
    /\ pc' = "done"
    /\ UNCHANGED args

SpecAts == InitAts /\ [][DetectAts]_vars

MaxWords == 4

MaxTopN == 3

\* The words a text of the extract_keywords calls is put together from.
KeywordWords == { "cat", "Dog", "dog,", "The", "ox", "e-mail/cat" }

KeywordTexts ==
    { join(" ", words) : words \in SeqsUpTo(KeywordWords, MaxWords) } \cup { None }

InitKeywords ==
    /\ pc = "extract_keywords"
    /\ text \in KeywordTexts
    /\ top_n \in 0..MaxTopN
    /\ cv_text = None /\ job_keywords = << >> /\ job_title = None
    /\ score = None /\ ats_name = None /\ url = None /\ html_text = None
    /\ html = << >>
    /\ contact_email = None /\ contact_phone = None
    /\ result = None

ExtractKeywords ==
    /\ pc = "extract_keywords"
    /\ result' = extract_keywords(text, top_n)
    /\ pc' = "done"
    /\ UNCHANGED args

SpecKeywords == InitKeywords /\ [][ExtractKeywords]_vars

MaxElements == 3

Element(tag, class, id, strings) ==
    [ tag |-> tag, class |-> class, id |-> id, strings |-> strings ]

\* The elements a document of the extract_job_text_from_html calls is put
\* together from: a short and a long description, an article whose text is
\* long only with its white space, a navigation bar that no selector
\* matches, a section of white space, and a posting of 200 characters.
HtmlElements ==
    { Element("div", "job-description", "", << "We are hiring" >>),
      Element("div", "description wide", "", << Repeat("Build  things. ", 14) >>),
      Element("article", "", "", << " About us ", Repeat(" \n ", 70), "Join\tnow" >>),
      Element("nav", "", "", << "Home", "  ", "Jobs" >>),
      Element("section", "", "", << " ", "\n" >>),
      Element("div", "posting", "job-42", << Repeat("x", 200) >>) }

HtmlDocuments ==
    { [ body |-> b, elements |-> els ] :
        b \in BOOLEAN, els \in SeqsUpTo(HtmlElements, MaxElements) }

InitHtml ==
    /\ pc = "extract_job_text_from_html"
    /\ html \in HtmlDocuments
    /\ cv_text = None /\ job_keywords = << >> /\ job_title = None
    /\ score = None /\ ats_name = None /\ url = None /\ html_text = None
    /\ text = None /\ top_n = 0
    /\ contact_email = None /\ contact_phone = None
    /\ result = None

ExtractJobTextFromHtml ==
    /\ pc = "extract_job_text_from_html"
    /\ result' = extract_job_text_from_html(html)
    /\ pc' = "done"
    /\ UNCHANGED args

SpecHtml == InitHtml /\ [][ExtractJobTextFromHtml]_vars

MaxLines == 3

\* The lines an original text of the create_revamped_docx calls is put
\* together from, and what ends each of them.
DocxLines == { "Jane Doe", "  Work Experience ", "", " \t ", "Python\tSQL" }

DocxLineEnds == { "\n", "\r\n" }

DocxTexts ==
    { join(e, lines) : lines \in SeqsUpTo(DocxLines, MaxLines), e \in DocxLineEnds }
    \cup { None }

InitDocx ==
    /\ pc = "create_revamped_docx"
    /\ cv_text \in DocxTexts
    /\ contact_email \in { None, "jane@example.com" }
    /\ contact_phone \in { None, "+1 555-123-4567" }
    /\ job_title \in { None, "Python Developer" }
    /\ job_keywords \in { << >>, << "python", "docker" >> }
    /\ score = None /\ ats_name = None /\ url = None /\ html_text = None
    /\ text = None /\ top_n = 0 /\ html = << >>
    /\ result = None

\* The call returns once the document is saved; result is the document.
CreateRevampedDocx ==
    /\ pc = "create_revamped_docx"
    /\ result' = create_revamped_docx(cv_text, contact_email, contact_phone,
                                      job_title, job_keywords)
    /\ pc' = "done"
    /\ UNCHANGED args

SpecDocx == InitDocx /\ [][CreateRevampedDocx]_vars

ManyKeywords == 800

MaxDistinctKeywords == 2

\* Keyword lists of the shape extract_keywords returns, passed to
\* score_resume and then to build_improvement_tips: not empty, of distinct
\* lowercase keywords.
DistinctKeywordLists ==
    { kws \in SeqsUpTo({ "python", "rust", "developer" }, MaxDistinctKeywords) :
        /\ kws # << >>
        /\ \A i, j \in 1..Len(kws) : i # j => kws[i] # kws[j] }

\* The keywords k100, k101, ... of a long list of n keywords.
ManyKeywordList(n) == [ i \in 1..n |-> "k" \o Decimal(99 + i) ]

\* A CV that holds all of them but the last.
ManyKeywordsCv(n) ==
    LET kws == ManyKeywordList(n)
    IN  Concat(LAMBDA i : kws[i] \o " ", 1, n - 1)

\* The arguments cv_text and job_keywords of the two calls: the CVs of the
\* score_resume calls (a str each) with the short lists, and the long lists
\* of ManyKeywords - 1 and of ManyKeywords keywords, each with its CV.
ScoreThenTipsInputs ==
    { << cv, kws >> : cv \in ScoreCvTexts \ { None }, kws \in DistinctKeywordLists }
    \cup { << ManyKeywordsCv(n), ManyKeywordList(n) >> :
               n \in { ManyKeywords - 1, ManyKeywords } }

\* score_resume(cv_text, job_keywords, job_title) is called, and then
\* build_improvement_tips(total, ats_name, cv_text, job_keywords) with the
\* total it returned and the same CV and keywords.
InitScoreThenTips ==
    /\ pc = "score"
    /\ \E input \in ScoreThenTipsInputs :
         cv_text = input[1] /\ job_keywords = input[2]
    /\ job_title \in ScoreTitles
    \* a label with tips of its own and one without
    /\ ats_name \in { "Greenhouse", "Acme" }
    /\ score = None /\ url = None /\ html_text = None
    /\ text = None /\ top_n = 0 /\ html = << >>
    /\ contact_email = None /\ contact_phone = None
    /\ result = None

\* total, breakdown = score_resume(cv_text, job_keywords, job_title): the
\* total is the score of the call to come, the breakdown is kept.
ScoreThenTips_score_resume ==
    /\ pc = "score"
    /\ LET r == score_resume(cv_text, job_keywords, job_title)
       IN  /\ score' = r.total
           /\ result' = [ breakdown |-> r.breakdown, tips |-> None ]
    /\ pc' = "tips"
    /\ UNCHANGED << cv_text, job_keywords, job_title, ats_name, url, html_text,
                    text, top_n, html, contact_email, contact_phone >>

\* tips = build_improvement_tips(total, ats_name, cv_text, job_keywords)
ScoreThenTips_build_improvement_tips ==
    /\ pc = "tips"
    /\ result' = [ result EXCEPT !.tips =
                     build_improvement_tips(score, ats_name, cv_text,
                                            job_keywords) ]
    /\ pc' = "done"
    /\ UNCHANGED args

SpecScoreThenTips ==
    InitScoreThenTips
    /\ [][ScoreThenTips_score_resume \/ ScoreThenTips_build_improvement_tips]_vars

-----------------------------------------------------------------------------
(* The properties of score_resume, under SpecScore                         *)

\* C1: for every CV text (the empty one included), every keyword list (empty,
\* with duplicates, in mixed case) and every job title (given or absent), the
\* total that score_resume returns is an integer from 0 to 100.
C1_TotalIsIntegerWithinRange ==
    pc = "done" =>
        /\ IsIntegral(result.total)
        /\ ~FLess(result.total, Int1(0))
        /\ ~FLess(Int1(100), result.total)

\* A CV of more than 1000 characters with both contacts and the title, scored
\* for a keyword it holds: every component is at its weight and the total is
\* their sum, 90.
C1_EveryComponentFull ==
    /\ pc = "done"
    /\ Len(cv_text) > LengthFull
    /\ job_keywords # << >>
    /\ job_title # None
    /\ FEq(result.total, Int1(90))

\* The keyword component as C7 states it: 40 times the share of the distinct
\* lowercased keywords that the lowercased CV holds, 20 for no keywords.
ClaimedKeywordScore(cv, kws) ==
    LET distinct == { lower(kws[i]) : i \in 1..Len(kws) }
        held == { k \in distinct : In(k, lower(OrEmpty(cv))) }
    IN  IF kws = << >> THEN FromInt(20)
        ELSE DTimes(40, Div(Cardinality(held), Cardinality(distinct)))

\* C7: for every CV text and every keyword list, the keyword component is 40
\* times (distinct lowercased keywords held by the lowercased CV) over
\* (distinct lowercased keywords), and 20 for the empty list.  score_resume
\* divides by the length of the list instead, so this fails for a list that
\* names a keyword twice.
C7_KeywordComponentOverDistinct ==
    pc = "done" =>
        FEq(result.breakdown.keyword_score,
            Round1(ClaimedKeywordScore(cv_text, job_keywords)))

\* C8: the contact component is 15 when find_contact_info finds an email and
\* a phone, 9.0 when it finds exactly one of them and 0 when it finds
\* neither; a CV holding "jane@example.com" and "+1 555-123-4567" gets 15,
\* and one holding that email and no digit gets 9.0.
C8_ContactComponent ==
    pc = "done" =>
        LET info == find_contact_info(cv_text)
            both == info.email # None /\ info.phone # None
            neither == info.email = None /\ info.phone = None
            component == result.breakdown.contact_score
            cv == OrEmpty(cv_text)
        IN  /\ both => FEq(component, Int1(15))
            /\ (~both /\ ~neither) => FEq(component, Frac(90, 10))
            /\ neither => FEq(component, Int1(0))
            /\ (In("jane@example.com", cv) /\ In("+1 555-123-4567", cv))
                   => FEq(component, Int1(15))
            /\ (In("jane@example.com", cv) /\ Chars(cv) \cap DigitChars = {})
                   => FEq(component, Frac(90, 10))

\* A CV with the email and no phone number has been scored.
C8_EmailOnly ==
    /\ pc = "done"
    /\ cv_text # None
    /\ In("jane@example.com", cv_text)
    /\ find_contact_info(cv_text).phone = None
    /\ FEq(result.breakdown.contact_score, Frac(90, 10))

-----------------------------------------------------------------------------
(* The properties of build_improvement_tips, under SpecTips                *)

\* C2: for every label, CV text and keyword list, a score of 85 or more
\* gives exactly one tip, the congratulatory one with the score rounded to an
\* integer, and a score below 85 gives more than one tip, the first of which
\* holds the score rounded to an integer (as '{:.0f}' rounds: a tie to even).
C2_ShortCircuitAtThreshold ==
    pc = "done" =>
        LET rounded == Decimal(RoundHalfEven(score.num, score.den))
        IN  IF score.num >= 85 * score.den
            THEN /\ Len(result) = 1
                 /\ result[1] = "Great \\u2014 your CV scored " \o rounded
                        \o ". Minor tweaks can still help, but it is ATS-friendly."
            ELSE /\ Len(result) > 1
                 /\ In(rounded, result[1])
                 /\ SubSeq(result[1], 1, 5) # "Great"

\* The tips for the score 84.5, just below the threshold: several, the first
\* with "84".
C2_JustBelowThreshold ==
    /\ pc = "done"
    /\ score = Frac(169, 2)
    /\ Len(result) > 1
    /\ In("scored 84/100", result[1])

\* The keywords of kws that the CV does not hold, compared in lower case, in
\* the order of kws.
MissingKeywords(cv, kws) ==
    LET F[i \in 0..Len(kws)] ==
            IF i = 0 THEN << >>
            ELSE IF In(lower(kws[i]), lower(cv)) THEN F[i - 1]
            ELSE Append(F[i - 1], kws[i])
    IN  F[Len(kws)]

\* C3: for a score below 85 the list is, in this order: the summary tip; the
\* tips of the label in ATS_TIPS, or those of "Unknown/Custom" for a label
\* without an entry; the Experience tip if the CV has no "Experience"; the
\* email tip if no email is found, then the phone tip if no phone is found;
\* one keywords tip naming the first 12 at most of the keywords the CV lacks,
\* if it lacks any; the first three GENERIC_TIPS.  Nothing else is in it.
C3_TipGroupsInOrder ==
    (pc = "done" /\ score.num < 85 * score.den) =>
        LET label == IF ats_name \in { "Greenhouse", "Lever", "Workday", "iCIMS", "Taleo" }
                     THEN ats_name ELSE "Unknown/Custom"
            n == Len(ATS_TIPS[label])
            info == find_contact_info(cv_text)
            missing == MissingKeywords(cv_text, job_keywords)
            shown == SubSeq(missing, 1, Min(12, Len(missing)))
            gaps == SubSeq(result, n + 2, Len(result) - 3)
            expected ==
                (IF In("Experience", cv_text) THEN << >> ELSE << ExperienceTip >>)
                \o (IF info.email = None THEN << EmailTip >> ELSE << >>)
                \o (IF info.phone = None THEN << PhoneTip >> ELSE << >>)
                \o (IF missing = << >> THEN << >>
                    ELSE << KeywordsTipHead \o join(", ", shown) >>)
        IN  /\ Len(result) >= n + 4
            /\ SubSeq(result[1], 1, 15) = "Your CV scored "
            /\ SubSeq(result, 2, n + 1) = ATS_TIPS[label]
            /\ gaps = expected
            /\ SubSeq(result, Len(result) - 2, Len(result))
                   = << GENERIC_TIPS[1], GENERIC_TIPS[2], GENERIC_TIPS[3] >>

\* Every group at once: a label without tips of its own, a CV with no
\* Experience section, email or phone, and 14 keywords that it lacks.
C3_EveryGroupPresent ==
    /\ pc = "done"
    /\ score.num < 85 * score.den
    /\ ats_name = "Workable"
    /\ Len(job_keywords) = 14
    /\ Len(result) = 9
    /\ result[3] = ExperienceTip
    /\ result[6] = KeywordsTipHead \o join(", ", SubSeq(job_keywords, 1, 12))

-----------------------------------------------------------------------------
(* The properties of detect_ats, under SpecAts                             *)

\* How often an entry of the table is recorded for a URL and a page text:
\* once if a domain fragment of it is in the lowercased URL or in its host
\* (a URL that urlparse rejects has no host), once more if a content fragment
\* of it is in the lowercased page text.
Recorded(e, u, h) ==
    LET url_l == lower(OrEmpty(u))
        parsed == IF url_l = "" THEN "" ELSE netloc(url_l)
        host == IF parsed = ValueError THEN "" ELSE parsed
    IN  (IF \E i \in 1..Len(e.domains) : In(e.domains[i], url_l) \/ In(e.domains[i], host)
         THEN 1 ELSE 0)
        + (IF \E i \in 1..Len(e.signatures) : In(e.signatures[i], lower(OrEmpty(h)))
           THEN 1 ELSE 0)

\* C4: when at least one entry is recorded for the URL and the page text,
\* detect_ats returns the name of the entry recorded most often, the first of
\* them in the table when several are recorded equally often.  detect_ats
\* raises ValueError instead for a URL that urlparse rejects (see C5), also
\* when a fragment of an entry is in that URL.
C4_MostRecordedFirstInTable ==
    pc = "done" =>
        \A i \in 1..Len(ATS_PATTERNS) :
            LET times == Recorded(ATS_PATTERNS[i], url, html_text)
            IN  ( /\ times > 0
                  /\ \A j \in 1..Len(ATS_PATTERNS) :
                        LET other == Recorded(ATS_PATTERNS[j], url, html_text)
                        IN  other < times \/ (other = times /\ i <= j) )
                => result = ATS_PATTERNS[i].name

\* C5: when no entry is recorded, detect_ats returns the capitalized token
\* after "powered by" in the page text if there is one and "Unknown/Custom"
\* otherwise, and when an entry is recorded it returns the name of an entry;
\* it returns a label for every URL and page text.  detect_ats raises
\* ValueError instead for the URL "http://[", which urlparse rejects.
C5_CascadeToSentinel ==
    pc = "done" =>
        LET recorded == \E i \in 1..Len(ATS_PATTERNS) :
                            Recorded(ATS_PATTERNS[i], url, html_text) > 0
            token == powered_by(lower(OrEmpty(html_text)))
        IN  /\ result # ValueError
            /\ recorded => \E i \in 1..Len(ATS_PATTERNS) : result = ATS_PATTERNS[i].name
            /\ (~recorded /\ token # None) => result = capitalize(token)
            /\ (~recorded /\ token = None) => result = "Unknown/Custom"
            /\ (~Truthy(url) /\ ~Truthy(html_text)) => result = "Unknown/Custom"

-----------------------------------------------------------------------------
(* The properties of extract_keywords, under SpecKeywords                  *)

\* C6: for every text and every top_n >= 0, extract_keywords returns at most
\* top_n tokens of the text that are pairwise distinct, lowercase, longer
\* than 2 characters and no stopwords, a more frequent one before a less
\* frequent one and, of two equally frequent ones, the one that occurs first
\* in the text before the other; no token left out is more frequent than one
\* returned, and none is left out while fewer than top_n are returned.
C6_MostFrequentTokens ==
    pc = "done" =>
        LET words == Words(OrEmpty(text))
            Count(w) == Cardinality({ i \in 1..Len(words) : lower(words[i]) = w })
            FirstAt(w) == MinOf({ i \in 1..Len(words) : lower(words[i]) = w })
            eligible == { lower(words[i]) : i \in 1..Len(words) }
                            \ { w \in { lower(words[i]) : i \in 1..Len(words) } :
                                    Len(w) <= 2 \/ w \in STOPWORDS }
            returned == Range(result)
        IN  /\ Len(result) <= top_n
            /\ \A i, j \in 1..Len(result) : i < j =>
                    /\ result[i] # result[j]
                    /\ \/ Count(result[i]) > Count(result[j])
                       \/ /\ Count(result[i]) = Count(result[j])
                          /\ FirstAt(result[i]) < FirstAt(result[j])
            /\ \A w \in returned :
                    /\ w \in eligible
                    /\ w = lower(w)
                    /\ Len(w) > 2
                    /\ w \notin STOPWORDS
            /\ \A w \in eligible \ returned :
                    /\ Len(result) = top_n
                    /\ \A v \in returned : Count(w) <= Count(v)

\* Two tokens twice each, in mixed case and with punctuation, and room for
\* one: the one that occurs first is returned.
C6_TieToFirstOccurrence ==
    /\ pc = "done"
    /\ text = "Dog cat dog, cat"
    /\ top_n = 1
    /\ result = << "dog" >>

-----------------------------------------------------------------------------
(* The properties of extract_job_text_from_html, under SpecHtml            *)

\* The text of the candidate of the k-th selector ("" when the selector finds
\* no element, or one without text).
CandidateText(doc, k) ==
    LET el == select_one(doc, selectors[k])
    IN  IF el = 0 THEN "" ELSE get_text(doc.elements[el].strings, " ")

\* C9: extract_job_text_from_html returns, with its white space collapsed,
\* the text of the first candidate in selector order that is longer than 200
\* characters, and the text of the whole body when no candidate is longer
\* than 200 characters.  The code returns the text of the last candidate
\* that has any text instead of the body's, so this fails for a page with a
\* short candidate.
C9_LongCandidateElseBody ==
    pc = "done" =>
        LET long == { k \in 1..Len(selectors) : Len(CandidateText(html, k)) > 200 }
        IN  IF long # {}
            THEN result = collapse(CandidateText(html, MinOf(long)))
            ELSE result = (IF html.body THEN collapse(get_text(BodyStrings(html), " "))
                           ELSE "")

-----------------------------------------------------------------------------
(* The properties of create_revamped_docx, under SpecDocx                  *)

\* The texts of the paragraphs added after the "Full CV (original content)"
\* heading.
FullCvParagraphs(doc) ==
    LET at == CHOOSE i \in 1..Len(doc) :
                  doc[i].kind = "heading" /\ doc[i].text = FullCvHeading
    IN  [ i \in 1..(Len(doc) - at) |-> doc[at + i].text ]

\* The lines of a text that have a character other than white space.
NonBlankLines(t) ==
    SelectSeq(splitlines(OrEmpty(t)),
              LAMBDA l : \E i \in 1..Len(l) : Char(l, i) \notin SpaceChars)

\* p is line without the white space at its two ends.
IsStripped(p, line) ==
    /\ p # ""
    /\ Char(p, 1) \notin SpaceChars
    /\ Char(p, Len(p)) \notin SpaceChars
    /\ \E k \in 0..(Len(line) - Len(p)) :
          /\ SubSeq(line, k + 1, k + Len(p)) = p
          /\ \A i \in (1..k) \cup ((k + Len(p) + 1)..Len(line)) :
                Char(line, i) \in SpaceChars

\* C10, as the claim states it: the paragraphs under the "Full CV (original
\* content)" heading are the non-blank lines of the original text, in their
\* order, each character for character with its leading and trailing white
\* space.
C10_LinesVerbatim ==
    pc = "done" => FullCvParagraphs(result) = NonBlankLines(cv_text)

\* C10, as the code has it: the paragraphs under the "Full CV (original
\* content)" heading are the non-blank lines of the original text, in their
\* order, each without its leading and trailing white space and otherwise
\* character for character; the lines of white space only are left out.
C10_LinesStripped ==
    pc = "done" =>
        LET paragraphs == FullCvParagraphs(result)
            lines == NonBlankLines(cv_text)
        IN  /\ Len(paragraphs) = Len(lines)
            /\ \A i \in 1..Len(lines) : IsStripped(paragraphs[i], lines[i])
            /\ \A i \in (Len(result) - Len(lines) + 1)..Len(result) :
                    result[i].kind = "paragraph" /\ result[i].style = ""

\* A text of an indented line, a line of white space and a line with a tab
\* inside has been written: two paragraphs, the first without its indent.
C10_IndentedLineWritten ==
    /\ pc = "done"
    /\ cv_text = "  Work Experience \n \t \nPython\tSQL"
    /\ FullCvParagraphs(result) = << "Work Experience", "Python\tSQL" >>

-----------------------------------------------------------------------------
(* The properties of score_resume with build_improvement_tips, under       *)
(* SpecScoreThenTips                                                       *)

\* The positions of the missing-keywords tips in a list of tips.
KeywordTips(tips) ==
    { i \in 1..Len(tips) :
        /\ Len(tips[i]) >= Len(KeywordsTipHead)
        /\ SubSeq(tips[i], 1, Len(KeywordsTipHead)) = KeywordsTipHead }

\* The keywords of kws that score_resume does not count as matched in cv, in
\* the order of kws.
NotCounted(cv, kws) ==
    SelectSeq(kws, LAMBDA k : ~In(lower(k), lower(OrEmpty(cv))))

\* The tip lists keywords that score_resume did not count: the first n of
\* them for an n from 1 to 12.
ListsNotCounted(tip, cv, kws) ==
    \E n \in 1..Min(12, Len(NotCounted(cv, kws))) :
        tip = KeywordsTipHead \o join(", ", SubSeq(NotCounted(cv, kws), 1, n))

\* C11, as the claim states it: for a total below 85 and a non-empty list of
\* distinct lowercase keywords, the tips hold a missing-keywords tip exactly
\* when the keyword component that score_resume returns is below 40, and the
\* keywords the tip lists are ones score_resume did not count as matched.
C11_TipIffComponentBelowMax ==
    (pc = "done" /\ FLess(score, Int1(85))) =>
        /\ (KeywordTips(result.tips) # {})
               <=> FLess(result.breakdown.keyword_score, Int1(40))
        /\ \A i \in KeywordTips(result.tips) :
               ListsNotCounted(result.tips[i], cv_text, job_keywords)

\* C11, as the code has it: for a total below 85 and a non-empty list of
\* distinct lowercase keywords, the tips hold a missing-keywords tip exactly
\* when score_resume counted fewer keywords as matched than the list holds,
\* that is when its keyword component before the rounding to one decimal is
\* below 40; for a list of fewer than 800 keywords that is exactly when the
\* keyword component it returns is below 40; and the keywords the tip lists
\* are ones score_resume did not count as matched.
C11_TipIffKeywordNotCounted ==
    (pc = "done" /\ FLess(score, Int1(85))) =>
        LET tip == KeywordTips(result.tips) # {}
        IN  /\ tip <=> NotCounted(cv_text, job_keywords) # << >>
            /\ tip <=> DLess(keyword_score(cv_text, job_keywords), FromInt(40))
            /\ Len(job_keywords) < 800 =>
                   (tip <=> FLess(result.breakdown.keyword_score, Int1(40)))
            /\ \A i \in KeywordTips(result.tips) :
                   ListsNotCounted(result.tips[i], cv_text, job_keywords)

\* A CV that holds "Python" has been scored for python and rust and its
\* tips written: half the keyword component, and a tip that lists rust.
C11_OneKeywordMissing ==
    /\ pc = "done"
    /\ FLess(score, Int1(85))
    /\ job_keywords = << "python", "rust" >>
    /\ FEq(result.breakdown.keyword_score, Int1(20))
    /\ \E i \in 1..Len(result.tips) : result.tips[i] = KeywordsTipHead \o "rust"

=============================================================================
